---------------------------- MODULE Spec2Model ----------------------------
(***************************************************************************)
(* A model of dataset/transform_3d.py: the five multi-view image           *)
(* transforms PadMultiViewImage, NormalizeMultiviewImage, RandomFlip,      *)
(* PhotoMetricDistortionMultiViewImage and RandomScaleImageMultiViewImage, *)
(* each a constructor and a __call__ on the shared record `results`.       *)
(*                                                                         *)
(* An image is a record [id, dtype, pix]: pix is the array as a sequence   *)
(* of rows of pixels, so its height is Len(pix) and its width Len(pix[1]). *)
(* A pixel is the history of its value: a sequence of steps                *)
(* <<name, args>>, args a tuple of integers; the first step is its origin  *)
(* (Src(row, col) for a pixel of the loaded image, Padded(pad_val) for a   *)
(* padded one) and every later one an arithmetic step applied to it.  id   *)
(* is the view the image belongs to.                                       *)
(*                                                                         *)
(* Python's None and an absent dict key are the empty sequence None; a     *)
(* present value x is Some(x) == <<x>>.  A rational number is <<num, den>>.*)
(***************************************************************************)
EXTENDS Integers, Sequences, FiniteSets, TLC

VARIABLES
    obj,        \* the transform object most recently constructed
    results,    \* the record (dict) handed from transform to transform
    err,        \* the exception that ended the pipeline, or "none"
    last,       \* the operation performed last, with its arguments and draws
    pre,        \* results['img'] as it was before the last __call__
    ncalls,     \* number of __call__s so far
    hue,        \* a hue channel img[..., 0] on its own (lines 199-203)
    loaded      \* results['img'] as the loader delivered it

vars == <<obj, results, err, last, pre, ncalls, hue, loaded>>

-----------------------------------------------------------------------------
(* Bounds of the model *)

MaxDim == 3

MaxViews == 2

MaxCalls == 2

RandDen == 4

-----------------------------------------------------------------------------
(* Values *)

None == <<>>

Some(x) == <<x>>

IsNone(o) == Len(o) = 0

Val(o) == o[1]

Max(a, b) == IF a >= b THEN a ELSE b

Height(img) == Len(img.pix)

Width(img) == IF Len(img.pix) = 0 THEN 0 ELSE Len(img.pix[1])

Src(r, c) == <<"src", <<r, c>>>>

Padded(pad_val) == <<"pad", <<pad_val>>>>

Shape(img) == <<Height(img), Width(img)>>

Ids(imgs) == [i \in 1..Len(imgs) |-> imgs[i].id]

\* every pixel of the image gets the arithmetic step op appended
MapPix(img, op) ==
    [img EXCEPT !.pix = [r \in 1..Height(img) |->
                           [c \in 1..Width(img) |-> Append(img.pix[r][c], op)]]]

\* an image as the loader delivers it
LoadedImg(id, h, w, dtype) ==
    [id |-> id, dtype |-> dtype,
     pix |-> [r \in 1..h |-> [c \in 1..w |-> << Src(r, c) >>]]]

NoObj == [cls |-> "None"]

EmptyResults(imgs) ==
    [img |-> imgs, extra_img |-> None, ori_img |-> None,
     pad_fixed_size |-> None, pad_size_divisor |-> None,
     img_norm_cfg |-> None, flip |-> None, focal_lens |-> None,
     focal_ratios |-> None, focal_ratios_x |-> None, focal_ratios_y |-> None]

-----------------------------------------------------------------------------
(* PadMultiViewImage *)

\* __init__: the first assertion, then size taking precedence over
\* size_divisor, then the second assertion (on the local size_divisor, which
\* line 26 has just set to None whenever size is given).
PadInitFails_BothRejected(size, size_divisor) ==
    IsNone(size) = IsNone(size_divisor)

PadInitFails(size, size_divisor) ==
    LET a1 == ~IsNone(size) \/ ~IsNone(size_divisor)
        sd == IF ~IsNone(size) THEN None ELSE size_divisor
        a2 == IsNone(size) \/ IsNone(sd)
    IN  ~a1 \/ ~a2

PadObject(size, size_divisor, pad_val) ==
    [cls |-> "PadMultiViewImage",
     size |-> size,
     size_divisor |-> IF ~IsNone(size) THEN None ELSE size_divisor,
     pad_val |-> pad_val]

PadInit(size, size_divisor, pad_val) ==
    /\ err = "none"
    /\ obj.cls # "PadMultiViewImage"
    /\ last' = [op |-> "PadMultiViewImage.__init__",
                size |-> size, size_divisor |-> size_divisor]
    /\ IF PadInitFails(size, size_divisor)
       THEN /\ err' = "AssertionError"
            /\ obj' = obj
       ELSE /\ err' = err
            /\ obj' = PadObject(size, size_divisor, pad_val)
    /\ UNCHANGED <<results, pre, ncalls, hue, loaded>>

\* impad with the two axes of shape taken the wrong way round
impad_AxesSwapped(img, shape, pad_val) ==
    LET h == Height(img)
        w == Width(img)
        H == h + Max(shape[2] - h, 0)
        W == w + Max(shape[1] - w, 0)
    IN  [img EXCEPT !.pix =
            [r \in 1..H |-> [c \in 1..W |->
                IF r <= h /\ c <= w THEN img.pix[r][c]
                ELSE << Padded(pad_val) >>]]]

\* mmcv.impad(img, shape=shape, pad_val=pad_val): pads on the bottom and on
\* the right by max(shape - img.shape, 0); it never crops.
impad(img, shape, pad_val) ==
    LET h == Height(img)
        w == Width(img)
        H == h + Max(shape[1] - h, 0)
        W == w + Max(shape[2] - w, 0)
    IN  [img EXCEPT !.pix =
            [r \in 1..H |-> [c \in 1..W |->
                IF r <= h /\ c <= w THEN img.pix[r][c]
                ELSE << Padded(pad_val) >>]]]

\* rounding down and adding one multiple, instead of rounding up
CeilMultiple_NextMultiple(n, divisor) == ((n \div divisor) + 1) * divisor

\* int(np.ceil(n / divisor)) * divisor, for n >= 0 and divisor >= 1
CeilMultiple(n, divisor) == ((n + divisor - 1) \div divisor) * divisor

\* mmcv.impad_to_multiple(img, divisor, pad_val)
impad_to_multiple(img, divisor, pad_val) ==
    impad(img, <<CeilMultiple(Height(img), divisor),
                 CeilMultiple(Width(img), divisor)>>, pad_val)

PadOne(self, img) ==
    IF ~IsNone(self.size)
    THEN impad(img, Val(self.size), self.pad_val)
    ELSE impad_to_multiple(img, Val(self.size_divisor), self.pad_val)

\* the last of several images left out of the loop
PadList_SkipsLast(self, imgs) ==
    [i \in 1..Len(imgs) |->
        IF i > 1 /\ i = Len(imgs) THEN imgs[i] ELSE PadOne(self, imgs[i])]

PadList(self, imgs) == [i \in 1..Len(imgs) |-> PadOne(self, imgs[i])]

PadOptList(self, o) == IF IsNone(o) THEN None ELSE Some(PadList(self, Val(o)))

\* _pad_img: np.ceil(n / 0) raises ZeroDivisionError before anything is stored
PadRaises(self) ==
    IsNone(self.size) /\ Val(self.size_divisor) = 0

PadCall ==
    /\ err = "none"
    /\ obj.cls = "PadMultiViewImage"
    /\ ncalls < MaxCalls
    /\ ncalls' = ncalls + 1
    /\ pre' = results.img
    /\ last' = [op |-> "PadMultiViewImage.__call__"]
    /\ IF PadRaises(obj)
       THEN /\ err' = "ZeroDivisionError"
            /\ results' = results
       ELSE /\ err' = err
            /\ results' = [results EXCEPT
                  !.img = PadList(obj, results.img),
                  !.pad_fixed_size = Some(obj.size),
                  !.pad_size_divisor = Some(obj.size_divisor),
                  !.extra_img = PadOptList(obj, results.extra_img),
                  !.ori_img = PadOptList(obj, results.ori_img)]
    /\ UNCHANGED <<obj, hue, loaded>>

-----------------------------------------------------------------------------
(* NormalizeMultiviewImage *)

NormInit(mean, std, to_rgb) ==
    /\ err = "none"
    /\ obj.cls # "NormalizeMultiviewImage"
    /\ obj' = [cls |-> "NormalizeMultiviewImage",
               mean |-> mean, std |-> std, to_rgb |-> to_rgb]
    /\ last' = [op |-> "NormalizeMultiviewImage.__init__"]
    /\ UNCHANGED <<results, err, pre, ncalls, hue, loaded>>

\* mmcv.imnormalize(img, mean, std, to_rgb): a float32 copy, BGR to RGB when
\* to_rgb, then (pixel - mean) / std per channel
imnormalize(img, mean, std, to_rgb) ==
    LET rgb == IF to_rgb THEN MapPix(img, <<"bgr2rgb", <<>>>>) ELSE img
        out == MapPix(MapPix(rgb, <<"sub", mean>>), <<"div", std>>)
    IN  [out EXCEPT !.dtype = "float32"]

NormCall ==
    /\ err = "none"
    /\ obj.cls = "NormalizeMultiviewImage"
    /\ ncalls < MaxCalls
    /\ ncalls' = ncalls + 1
    /\ pre' = results.img
    /\ last' = [op |-> "NormalizeMultiviewImage.__call__"]
    /\ results' = [results EXCEPT
          !.img = [i \in 1..Len(results.img) |->
                      imnormalize(results.img[i], obj.mean, obj.std, obj.to_rgb)],
          !.img_norm_cfg = Some([mean |-> obj.mean, std |-> obj.std,
                                 to_rgb |-> obj.to_rgb])]
    /\ UNCHANGED <<obj, err, hue, loaded>>

-----------------------------------------------------------------------------
(* Rational numbers <<num, den>>, den > 0.  The scales and ratios of the    *)
(* model have denominators that are powers of two or small, and the image  *)
(* dimensions are small integers, so the products the code forms in        *)
(* floating point are exact and equal the rational ones.                   *)

RatLess(a, b) == a[1] * b[2] < b[1] * a[2]

RatAdd(a, b) == <<a[1] * b[2] + b[1] * a[2], a[2] * b[2]>>

RatSub(a, b) == <<a[1] * b[2] - b[1] * a[2], a[2] * b[2]>>

RatMul(a, b) == <<a[1] * b[1], a[2] * b[2]>>

\* a / b for b > 0
RatDiv(a, b) == <<a[1] * b[2], a[2] * b[1]>>

RECURSIVE Gcd(_, _)
Gcd(a, b) ==
    IF b = 0 THEN (IF a < 0 THEN -a ELSE a) ELSE Gcd(b, a % b)

\* the number itself, in lowest terms: two equal numbers have one value
Rat(a) == LET g == Gcd(a[1], a[2]) IN <<a[1] \div g, a[2] \div g>>

-----------------------------------------------------------------------------
(* RandomFlip *)

FlipInit(prob) ==
    /\ err = "none"
    /\ obj.cls # "RandomFlip"
    /\ obj' = [cls |-> "RandomFlip", prob |-> prob]
    /\ last' = [op |-> "RandomFlip.__init__"]
    /\ UNCHANGED <<results, err, pre, ncalls, hue, loaded>>

\* the decision taken with <= in place of <
FlipDecision_Leq(r, prob) == ~RatLess(prob, r)

\* flip = random.random() < self.prob, r the number drawn
FlipDecision(r, prob) == RatLess(r, prob)

\* mmcv.imflip(img), direction 'horizontal': every row reversed
imflip(img) ==
    [img EXCEPT !.pix = [r \in 1..Height(img) |->
        [c \in 1..Width(img) |-> img.pix[r][Width(img) + 1 - c]]]]

FlipCall(r) ==
    /\ err = "none"
    /\ obj.cls = "RandomFlip"
    /\ ncalls < MaxCalls
    /\ ncalls' = ncalls + 1
    /\ pre' = results.img
    /\ last' = [op |-> "RandomFlip.__call__", r |-> r]
    /\ LET flip == FlipDecision(r, obj.prob)
       IN  results' = [results EXCEPT
              !.img = IF flip
                      THEN [i \in 1..Len(results.img) |-> imflip(results.img[i])]
                      ELSE results.img,
              !.flip = Some(flip)]
    /\ UNCHANGED <<obj, err, hue, loaded>>

-----------------------------------------------------------------------------
(* RandomScaleImageMultiViewImage *)

\* __init__ raises: the assertion on random_scale, then scales[0] of an
\* empty list, then the assertion on len(scales)
ScaleInitError(scales, ref_focal_len, random_scale, pad_scale_rate) ==
    IF ~IsNone(random_scale) /\ ~(Len(Val(random_scale)) = 2 /\ IsNone(ref_focal_len))
    THEN "AssertionError"
    ELSE IF IsNone(pad_scale_rate) /\ Len(scales) = 0
    THEN "IndexError"
    ELSE IF Len(scales) # 1
    THEN "AssertionError"
    ELSE "none"

ScaleInit(scales, ref_focal_len, random_scale, pad_scale_rate) ==
    /\ err = "none"
    /\ obj.cls # "RandomScaleImageMultiViewImage"
    /\ last' = [op |-> "RandomScaleImageMultiViewImage.__init__"]
    /\ err' = ScaleInitError(scales, ref_focal_len, random_scale, pad_scale_rate)
    /\ IF err' # "none"
       THEN obj' = obj
       ELSE obj' = [cls |-> "RandomScaleImageMultiViewImage",
                    scales |-> scales,
                    ref_focal_len |-> ref_focal_len,
                    pad_scale_rate |-> IF IsNone(pad_scale_rate)
                                       THEN <<scales[1], scales[1]>>
                                       ELSE Val(pad_scale_rate),
                    random_scale |-> random_scale]
    /\ UNCHANGED <<results, pre, ncalls, hue, loaded>>

\* the size rounded to the nearest integer (half up), for q >= 0
ToSize_Rounded(q) == (2 * q[1] + q[2]) \div (2 * q[2])

\* int(x): x truncated towards zero
ToSize(q) == IF q[1] >= 0 THEN q[1] \div q[2] ELSE -((-q[1]) \div q[2])

\* np.random.rand(n) * (random_scale[1] - random_scale[0]) + random_scale[0]
\* (lines 351); ref_focal_len * 1.0 / focal_len (line 358); for view i, with
\* u[i] the number drawn for it
FocalRatio(self, res, u, i) ==
    IF IsNone(self.ref_focal_len)
    THEN LET lo == Val(self.random_scale)[1]
             hi == Val(self.random_scale)[2]
         IN  Rat(RatAdd(RatMul(u[i], RatSub(hi, lo)), lo))
    ELSE Rat(RatDiv(Val(self.ref_focal_len), <<Val(res.focal_lens)[i], 1>>))

FixedScale(self) == IsNone(self.ref_focal_len) /\ IsNone(self.random_scale)

\* rand_scales (lines 349-360)
RandScale(self, res, u, i) ==
    IF FixedScale(self) THEN self.scales[1]
    ELSE Rat(RatMul(self.scales[1], FocalRatio(self, res, u, i)))

\* y_size and x_size (lines 365-366)
YSize(img, scale) == ToSize(RatMul(<<Height(img), 1>>, scale))

XSize(img, scale) == ToSize(RatMul(<<Width(img), 1>>, scale))

\* mmcv.imresize(img, (x_size, y_size)): an array of y_size rows and x_size
\* columns, each pixel interpolated from the source pixels around its place
imresize(img, x_size, y_size) ==
    [img EXCEPT !.pix = [r \in 1..y_size |-> [c \in 1..x_size |->
        Append(img.pix[((r - 1) * Height(img)) \div y_size + 1]
                      [((c - 1) * Width(img)) \div x_size + 1],
               <<"imresize", <<y_size, x_size>>>>)]]]

ScaleCall(u) ==
    /\ err = "none"
    /\ obj.cls = "RandomScaleImageMultiViewImage"
    /\ ncalls < MaxCalls
    /\ ncalls' = ncalls + 1
    /\ pre' = results.img
    /\ last' = [op |-> "RandomScaleImageMultiViewImage.__call__",
                u |-> IF IsNone(obj.random_scale) THEN <<>> ELSE u]
    /\ IF ~IsNone(obj.ref_focal_len) /\ IsNone(results.focal_lens)
       THEN /\ err' = "KeyError"
            /\ results' = results
       ELSE LET n == Len(results.img)
                scale == [i \in 1..n |-> RandScale(obj, results, u, i)]
                y == [i \in 1..n |-> YSize(results.img[i], scale[i])]
                x == [i \in 1..n |-> XSize(results.img[i], scale[i])]
                ok == \A i \in 1..n : y[i] > 0 /\ x[i] > 0
                res1 == [results EXCEPT
                    !.focal_ratios =
                        IF FixedScale(obj) THEN @
                        ELSE Some([i \in 1..n |-> FocalRatio(obj, results, u, i)]),
                    !.focal_ratios_x =
                        Some([i \in 1..n |-> Rat(RatDiv(scale[i], obj.pad_scale_rate[2]))]),
                    !.focal_ratios_y =
                        Some([i \in 1..n |-> Rat(RatDiv(scale[i], obj.pad_scale_rate[1]))])]
            IN  /\ err' = IF ok THEN "none" ELSE "cv2.error"
                /\ results' = IF ok
                      THEN [res1 EXCEPT !.img =
                              [i \in 1..n |-> imresize(results.img[i], x[i], y[i])]]
                      ELSE res1
    /\ UNCHANGED <<obj, hue, loaded>>

-----------------------------------------------------------------------------
(* PhotoMetricDistortionMultiViewImage *)

PhotoCls == "PhotoMetricDistortionMultiViewImage"

PhotoInit(brightness_delta, contrast_range, saturation_range, hue_delta, use_swap_channel) ==
    /\ err = "none"
    /\ obj.cls # PhotoCls
    /\ obj' = [cls |-> PhotoCls,
               brightness_delta |-> brightness_delta,
               contrast_lower |-> contrast_range[1],
               contrast_upper |-> contrast_range[2],
               saturation_lower |-> saturation_range[1],
               saturation_upper |-> saturation_range[2],
               hue_delta |-> hue_delta,
               use_swap_channel |-> use_swap_channel]
    /\ last' = [op |-> "PhotoMetricDistortionMultiViewImage.__init__"]
    /\ UNCHANGED <<results, err, pre, ncalls, hue, loaded>>

\* lines 201-203 on one hue value h: the offset added, then 360 subtracted
\* where the sum is > 360, then 360 added where the result is < 0
RandomHue(h, off) ==
    LET v == h + off
        w == IF v > 360 THEN v - 360 ELSE v
    IN  IF w < 0 THEN w + 360 ELSE w

(* The draws of one image, in the order the loop body makes them:          *)
(*   brightness  None (randint(2) = 0) or Some(delta)          lines 177-180 *)
(*   mode        randint(2)                                    line 184      *)
(*   contrast    None or Some(alpha), drawn in the branch      lines 186-189 *)
(*               that mode selects                             and 210-213   *)
(*   saturation  None or Some(factor)                          lines 195-197 *)
(*   hue         None or Some(<<h, off>>), h the hue that      lines 200-201 *)
(*               mmcv.bgr2hsv gave the image and off the offset              *)
(*   swap        randint(2)                                    line 216      *)
(*   perm        random.permutation(3), drawn when swap = 1    line 217      *)
(*               and use_swap_channel                                        *)

\* the steps that write into the array of results['img'] itself: img += delta
\* and, before the first conversion, img *= alpha (lines 176-189)
InPlace_UntilSaturation(self, img, d) ==
    LET a == IF IsNone(d.brightness) THEN img
             ELSE MapPix(img, <<"add", <<Val(d.brightness)>>>>)
        b == IF d.mode = 1 /\ ~IsNone(d.contrast)
             THEN MapPix(a, <<"mul", Val(d.contrast)>>) ELSE a
        c == MapPix(b, <<"bgr2hsv", <<>>>>)
    IN  IF IsNone(d.saturation) THEN c
        ELSE MapPix(c, <<"mul_s", Val(d.saturation)>>)

InPlace(self, img, d) ==
    LET a == IF IsNone(d.brightness) THEN img
             ELSE MapPix(img, <<"add", <<Val(d.brightness)>>>>)
    IN  IF d.mode = 1 /\ ~IsNone(d.contrast)
        THEN MapPix(a, <<"mul", Val(d.contrast)>>) ELSE a

\* the rest of the loop body, on the new arrays the conversions return
\* (lines 191-217)
Distorted(self, img, d) ==
    LET a == MapPix(InPlace(self, img, d), <<"bgr2hsv", <<>>>>)
        b == IF IsNone(d.saturation) THEN a
             ELSE MapPix(a, <<"mul_s", Val(d.saturation)>>)
        c == IF IsNone(d.hue) THEN b
             ELSE MapPix(b, <<"hue", <<Val(d.hue)[1], Val(d.hue)[2],
                                       RandomHue(Val(d.hue)[1], Val(d.hue)[2])>>>>)
        e == MapPix(c, <<"hsv2bgr", <<>>>>)
        f == IF d.mode = 0 /\ ~IsNone(d.contrast)
             THEN MapPix(e, <<"mul", Val(d.contrast)>>) ELSE e
    IN  IF d.swap = 1 /\ self.use_swap_channel
        THEN MapPix(f, <<"swap", d.perm>>) ELSE f

\* new_imgs.append(img) moved into the branch that swaps the channels
PhotoList_AppendInSwapBranch(self, imgs, draws) ==
    LET kept == { i \in 1..Len(imgs) : draws[i].swap = 1 /\ self.use_swap_channel }
        RECURSIVE Build(_)
        Build(i) == IF i = 0 THEN <<>>
                    ELSE IF i \in kept
                    THEN Append(Build(i - 1), Distorted(self, imgs[i], draws[i]))
                    ELSE Build(i - 1)
    IN  Build(Len(imgs))

\* new_imgs (lines 171-218)
PhotoList(self, imgs, draws) ==
    [i \in 1..Len(imgs) |-> Distorted(self, imgs[i], draws[i])]

\* the number of images the loop works on before the dtype assertion of
\* line 173 fails (all of them when it never does)
Processed(imgs) ==
    IF \A i \in 1..Len(imgs) : imgs[i].dtype = "float32" THEN Len(imgs)
    ELSE (CHOOSE k \in 1..Len(imgs) :
            /\ imgs[k].dtype # "float32"
            /\ \A j \in 1..(k - 1) : imgs[j].dtype = "float32") - 1

\* __call__, draws[i] the draws of image i
PhotoCall(draws) ==
    /\ err = "none"
    /\ obj.cls = PhotoCls
    /\ ncalls < MaxCalls
    /\ ncalls' = ncalls + 1
    /\ pre' = results.img
    /\ last' = [op |-> "PhotoMetricDistortionMultiViewImage.__call__",
                draws |-> draws]
    /\ LET n == Len(results.img)
           m == Processed(results.img)
       IN  IF m < n
           THEN /\ err' = "AssertionError"
                /\ results' = [results EXCEPT !.img =
                      [i \in 1..n |-> IF i <= m THEN InPlace(obj, results.img[i], draws[i])
                                      ELSE results.img[i]]]
           ELSE /\ err' = err
                /\ results' = [results EXCEPT !.img = PhotoList(obj, results.img, draws)]
    /\ UNCHANGED <<obj, hue, loaded>>

\* lines 199-203 on a hue channel, off the offset drawn
HueStep(off) ==
    /\ err = "none"
    /\ obj.cls = PhotoCls
    /\ IsNone(hue.out)
    /\ hue' = [hue EXCEPT !.off = Some(off),
                          !.out = Some([k \in 1..Len(hue.chan) |->
                                           RandomHue(hue.chan[k], off)])]
    /\ last' = [op |-> "hue"]
    /\ UNCHANGED <<obj, results, err, pre, ncalls, loaded>>

-----------------------------------------------------------------------------
(* Inputs *)

Dims == 1..MaxDim

DTypes == {"float32", "uint8"}

\* the shapes of the views of a record of n views: every shape for a
\* single view, the smallest and largest heights and widths for several
ShapesOf(n) ==
    IF n = 1 THEN Dims \X Dims ELSE {1, 2, MaxDim} \X {1, MaxDim}

\* all lists of n loaded images of dtype in D, view i having id i
ImgLists(n, D) ==
    { [i \in 1..n |-> LoadedImg(i, f[i][1][1], f[i][1][2], f[i][2])] :
        f \in [1..n -> ShapesOf(n) \X D] }

AllImgLists(D) == UNION { ImgLists(n, D) : n \in 1..MaxViews }

SideList == << LoadedImg(101, 1, 2, "uint8") >>

SizeArgs == {None} \cup { Some(<<H, W>>) : H \in 2..MaxDim, W \in 2..MaxDim }

DivisorArgs == {None} \cup { Some(d) : d \in 0..MaxDim }

PadVals == {0, 7}

HueIdle == [chan |-> <<>>, off |-> None, out |-> None]

\* the state before any transform is constructed, res the loaded record
Loaded(res) ==
    /\ obj = NoObj
    /\ results = res
    /\ err = "none"
    /\ last = [op |-> "load"]
    /\ pre = <<>>
    /\ ncalls = 0
    /\ hue = HueIdle
    /\ loaded = res.img

InitPad ==
    \E imgs \in AllImgLists({"uint8"}), side \in {None, Some(SideList)} :
        Loaded([EmptyResults(imgs) EXCEPT !.extra_img = side, !.ori_img = side])

NextPad ==
    \/ \E size \in SizeArgs, d \in DivisorArgs, pv \in PadVals : PadInit(size, d, pv)
    \/ PadCall

SpecPad == InitPad /\ [][NextPad]_vars


Probs == { <<0, 1>>, <<1, 2>>, <<1, 1>> }

\* the numbers random.random() and np.random.rand() draw from [0, 1)
RandDraws == { Rat(<<k, RandDen>>) : k \in 0..(RandDen - 1) }

InitFlip == \E imgs \in AllImgLists({"uint8"}) : Loaded(EmptyResults(imgs))

NextFlip ==
    \/ \E prob \in Probs : FlipInit(prob)
    \/ \E r \in RandDraws : FlipCall(r)

SpecFlip == InitFlip /\ [][NextFlip]_vars

ScaleLists ==
    { <<>>, << <<3, 4>> >>, << <<5, 4>> >>, << <<1, 2>>, <<3, 4>> >> }

\* the least and the greatest number np.random.rand() draws
ScaleDraws == { Rat(<<0, RandDen>>), Rat(<<RandDen - 1, RandDen>>) }

RefFocalArgs == { None, Some(<<2, 1>>) }

RandomScaleArgs == { None, Some(<< <<1, 2>>, <<3, 2>> >>), Some(<< <<1, 2>> >>) }

PadScaleArgs == { None, Some(<< <<1, 2>>, <<1, 1>> >>) }

\* results['metas']['intrinsic'][:, 0, 0] of n views
FocalLens(n) == [i \in 1..n |-> i]

InitScale ==
    \E imgs \in AllImgLists({"uint8"}), fl \in BOOLEAN :
        Loaded([EmptyResults(imgs) EXCEPT
                  !.focal_lens = IF fl THEN Some(FocalLens(Len(imgs))) ELSE None])

NextScale ==
    \/ \E sc \in ScaleLists, rf \in RefFocalArgs,
          rs \in RandomScaleArgs, ps \in PadScaleArgs : ScaleInit(sc, rf, rs, ps)
    \/ \E u \in [1..Len(results.img) -> ScaleDraws] : ScaleCall(u)

SpecScale == InitScale /\ [][NextScale]_vars

\* One loop pass's draws, the values uniform() draws at the lower end of
\* their ranges, one hue and one permutation.
Draw(self, b, mode, c, rest) ==
    [brightness |-> IF b THEN Some(-self.brightness_delta) ELSE None,
     mode |-> mode,
     contrast |-> IF c THEN Some(self.contrast_lower) ELSE None,
     saturation |-> IF rest THEN Some(self.saturation_lower) ELSE None,
     hue |-> IF rest THEN Some(<<350, self.hue_delta - 8>>) ELSE None,
     swap |-> IF rest THEN 1 ELSE 0,
     perm |-> IF rest /\ self.use_swap_channel THEN <<3, 2, 1>> ELSE <<>>]

\* the draws of one image: no step drawn; brightness and contrast in mode
\* 1; contrast in mode 1 with the steps after the conversion; every step in
\* mode 0
PhotoDraws(self) ==
    { Draw(self, FALSE, 0, FALSE, FALSE), Draw(self, TRUE, 1, TRUE, FALSE),
      Draw(self, FALSE, 1, TRUE, TRUE), Draw(self, TRUE, 0, TRUE, TRUE) }

\* lists of images of one shape, float32 or not
PhotoImgLists ==
    UNION { { [i \in 1..n |-> LoadedImg(i, 1, 2, f[i])] : f \in [1..n -> DTypes] } :
              n \in 1..MaxViews }

InitPhoto == \E imgs \in PhotoImgLists : Loaded(EmptyResults(imgs))

NextPhoto ==
    \/ PhotoInit(32, << <<4, 5>>, <<6, 5>> >>, << <<4, 5>>, <<6, 5>> >>, 18, TRUE)
    \/ PhotoInit(8, << <<9, 10>>, <<11, 10>> >>, << <<9, 10>>, <<11, 10>> >>, 8, FALSE)
    \/ /\ obj.cls = PhotoCls
       /\ \E draws \in [1..Processed(results.img) -> PhotoDraws(obj)] : PhotoCall(draws)

SpecPhoto == InitPhoto /\ [][NextPhoto]_vars

\* hue values of [0, 360): both ends of the range and every 45 degrees
Hues == { h \in 0..359 : h < 20 \/ h > 339 \/ h % 45 = 0 }

HueDeltas == {18, 36}

\* random.uniform(-hue_delta, hue_delta) draws from [-hue_delta, hue_delta)
HueOffsets(self) == (-self.hue_delta)..(self.hue_delta - 1)

InitHue ==
    /\ \E h \in Hues : hue = [chan |-> <<h>>, off |-> None, out |-> None]
    /\ obj = NoObj
    /\ results = EmptyResults(<<>>)
    /\ err = "none"
    /\ last = [op |-> "load"]
    /\ pre = <<>>
    /\ ncalls = 0
    /\ loaded = <<>>

NextHue ==
    \/ \E hd \in HueDeltas : PhotoInit(32, << <<4, 5>>, <<6, 5>> >>,
                                       << <<4, 5>>, <<6, 5>> >>, hd, TRUE)
    \/ /\ obj.cls = PhotoCls
       /\ \E off \in HueOffsets(obj) : HueStep(off)

SpecHue == InitHue /\ [][NextHue]_vars

-----------------------------------------------------------------------------
(* The pipeline: the five transforms constructed and called in any order   *)
(* on one record                                                           *)

\* the draws of one image in the pipeline: no step drawn, or every step
PipelineDraws(self) ==
    { Draw(self, FALSE, 0, FALSE, FALSE), Draw(self, TRUE, 0, TRUE, TRUE) }

\* records whose views have one shape and one dtype
PipelineImgLists ==
    { [i \in 1..n |-> LoadedImg(i, 2, 3, t)] : n \in 1..MaxViews, t \in DTypes }

Init ==
    \E imgs \in PipelineImgLists :
        Loaded([EmptyResults(imgs) EXCEPT !.focal_lens = Some(FocalLens(Len(imgs)))])

Next ==
    \/ PadInit(Some(<<3, 3>>), None, 0)
    \/ PadInit(None, Some(2), 0)
    \/ PadCall
    \/ NormInit(<<123, 116, 103>>, <<58, 57, 57>>, TRUE)
    \/ NormCall
    \/ FlipInit(<<1, 2>>)
    \/ \E r \in RandDraws : FlipCall(r)
    \/ PhotoInit(32, << <<4, 5>>, <<6, 5>> >>, << <<4, 5>>, <<6, 5>> >>, 18, TRUE)
    \/ /\ obj.cls = PhotoCls
       /\ \E draws \in [1..Processed(results.img) -> PipelineDraws(obj)] : PhotoCall(draws)
    \/ \E sc \in { << <<1, 2>> >>, << <<5, 4>> >> },
          rf \in RefFocalArgs,
          rs \in { None, Some(<< <<1, 2>>, <<3, 2>> >>) } : ScaleInit(sc, rf, rs, None)
    \/ \E u \in [1..Len(results.img) -> ScaleDraws] : ScaleCall(u)

Spec == Init /\ [][Next]_vars

-----------------------------------------------------------------------------
(* Claims about PadMultiViewImage, checked under SpecPad *)

PadConstructed == last.op = "PadMultiViewImage.__init__"

PadCalled == last.op = "PadMultiViewImage.__call__" /\ err = "none"

PadExtentOk(before, after, pad_val) ==
    \A r \in 1..Height(after) : \A c \in 1..Width(after) :
        IF r <= Height(before) /\ c <= Width(before)
        THEN after.pix[r][c] = before.pix[r][c]
        ELSE after.pix[r][c] = << Padded(pad_val) >>

\* C1 as stated: constructing PadMultiViewImage fails when both size and
\* size_divisor are given and when neither is given, and succeeds only
\* when exactly one of the two is given.
C1_Original ==
    PadConstructed =>
        ((err = "AssertionError") <=> (IsNone(last.size) = IsNone(last.size_divisor)))

\* C1 amended: construction fails exactly when neither size nor
\* size_divisor is given; when both are given it succeeds, keeps size and
\* stores size_divisor as None.
C1_Amended ==
    PadConstructed =>
        /\ (err = "AssertionError") <=> (IsNone(last.size) /\ IsNone(last.size_divisor))
        /\ err = "none" =>
              /\ obj.size = last.size
              /\ obj.size_divisor = (IF IsNone(last.size) THEN last.size_divisor ELSE None)
              /\ IsNone(obj.size) # IsNone(obj.size_divisor)

C1_Witness ==
    /\ PadConstructed
    /\ ~IsNone(last.size) /\ ~IsNone(last.size_divisor)
    /\ err = "none"
    /\ obj.cls = "PadMultiViewImage" /\ IsNone(obj.size_divisor)

\* C2 as stated: with a fixed size (H, W), after a call every image has
\* shape exactly (H, W), for every input image shape, and every pixel
\* outside the original extent equals pad_val.
C2_Original ==
    (PadCalled /\ ~IsNone(obj.size)) =>
        \A i \in 1..Len(results.img) :
            /\ Shape(results.img[i]) = Val(obj.size)
            /\ PadExtentOk(pre[i], results.img[i], obj.pad_val)

\* C2 amended: with a fixed size (H, W), after a call an image of shape
\* (h, w) has shape (max(h, H), max(w, W)), which is (H, W) exactly when
\* h <= H and w <= W (a larger image is not cropped); the original
\* extent is kept and every pixel outside it equals pad_val.
C2_Amended ==
    (PadCalled /\ ~IsNone(obj.size)) =>
        /\ Len(results.img) = Len(pre)
        /\ \A i \in 1..Len(results.img) :
            /\ Shape(results.img[i]) =
                  <<Max(Height(pre[i]), Val(obj.size)[1]),
                    Max(Width(pre[i]), Val(obj.size)[2])>>
            /\ (Height(pre[i]) <= Val(obj.size)[1] /\ Width(pre[i]) <= Val(obj.size)[2])
                  => Shape(results.img[i]) = Val(obj.size)
            /\ PadExtentOk(pre[i], results.img[i], obj.pad_val)

C2_Witness ==
    /\ PadCalled /\ ~IsNone(obj.size)
    /\ obj.pad_val = 7
    /\ Len(results.img) = 2
    /\ Shape(pre[1]) = <<1, 1>>
    /\ Shape(results.img[1]) = <<2, 3>>
    /\ results.img[1].pix[1][1] = << Src(1, 1) >>
    /\ results.img[1].pix[2][3] = << Padded(7) >>

\* C3: with a divisor d >= 1 and no fixed size, after a call each output
\* image's height and width are the smallest multiples of d that are >=
\* that image's original height and width.
C3_SmallestMultiple ==
    (PadCalled /\ IsNone(obj.size)) =>
        LET d == Val(obj.size_divisor)
        IN  /\ d >= 1
            /\ Len(results.img) = Len(pre)
            /\ \A i \in 1..Len(results.img) :
                  /\ Height(results.img[i]) % d = 0
                  /\ Height(results.img[i]) >= Height(pre[i])
                  /\ Height(results.img[i]) - d < Height(pre[i])
                  /\ Width(results.img[i]) % d = 0
                  /\ Width(results.img[i]) >= Width(pre[i])
                  /\ Width(results.img[i]) - d < Width(pre[i])

C3_Witness ==
    /\ PadCalled /\ IsNone(obj.size)
    /\ Val(obj.size_divisor) = 2
    /\ Shape(pre[1]) = <<3, 2>>
    /\ Shape(results.img[1]) = <<4, 2>>

SameShapes(imgs) ==
    \A i \in 1..Len(imgs) : \A j \in 1..Len(imgs) : Shape(imgs[i]) = Shape(imgs[j])

\* C4 as stated: after PadMultiViewImage is applied, in either mode and
\* for any input image shapes, all images in results['img'] have the same
\* shape as one another.
C4_Original == PadCalled => SameShapes(results.img)

\* C4 amended: after PadMultiViewImage is applied, all images in
\* results['img'] have the same shape as one another provided the input
\* images had the same shape as one another or, in fixed-size mode,
\* provided no input image is larger than the fixed size.
C4_Amended ==
    PadCalled =>
        ((\/ SameShapes(pre)
          \/ /\ ~IsNone(obj.size)
             /\ \A i \in 1..Len(pre) :
                   Height(pre[i]) <= Val(obj.size)[1] /\ Width(pre[i]) <= Val(obj.size)[2])
            => SameShapes(results.img))

C4_Witness ==
    /\ PadCalled /\ ~IsNone(obj.size)
    /\ Len(pre) = 2
    /\ Shape(pre[1]) = <<1, 3>> /\ Shape(pre[2]) = <<2, 1>>
    /\ Shape(results.img[1]) = <<2, 3>> /\ Shape(results.img[2]) = <<2, 3>>

-----------------------------------------------------------------------------
(* Claims about RandomFlip, checked under SpecFlip *)

FlipCalled == last.op = "RandomFlip.__call__"

Mirrored(before, after) ==
    /\ Shape(after) = Shape(before)
    /\ after.id = before.id
    /\ \A r \in 1..Height(before) : \A c \in 1..Width(before) :
          after.pix[r][c] = before.pix[r][Width(before) + 1 - c]

\* C5: RandomFlip with prob = 0 never flips and with prob = 1 always
\* flips, for every random draw; in every call a single decision is
\* applied to all views (every image is mirrored or none is) and
\* results['flip'] equals that decision.
C5_FlipDecision ==
    FlipCalled =>
        /\ ~IsNone(results.flip)
        /\ Len(results.img) = Len(pre)
        /\ obj.prob = <<0, 1>> => Val(results.flip) = FALSE
        /\ obj.prob = <<1, 1>> => Val(results.flip) = TRUE
        /\ IF Val(results.flip)
           THEN \A i \in 1..Len(pre) : Mirrored(pre[i], results.img[i])
           ELSE results.img = pre

C5_Witness ==
    /\ FlipCalled
    /\ obj.prob = <<1, 1>>
    /\ last.r = <<3, 4>>
    /\ Val(results.flip) = TRUE
    /\ Len(pre) = 2
    /\ Width(pre[1]) = 3 /\ Width(pre[2]) = 3
    /\ results.img[1].pix[1][1] = << Src(1, 3) >>
    /\ results.img[2].pix[1][3] = << Src(1, 1) >>

-----------------------------------------------------------------------------
(* Claims about RandomScaleImageMultiViewImage, checked under SpecScale *)

ScaleCalled ==
    last.op = "RandomScaleImageMultiViewImage.__call__" /\ err = "none"

\* Python's round(n / d) for n >= 0: to the nearest integer, a half to the
\* even neighbour
PyRound(n, d) ==
    LET f == n \div d
        twice == 2 * (n % d)
    IN  IF twice < d THEN f
        ELSE IF twice > d THEN f + 1
        ELSE IF f % 2 = 0 THEN f ELSE f + 1

\* C6 as stated: with a fixed scale s (no random_scale, no ref_focal_len)
\* every image of height h and width w is resized to height round(h * s)
\* and width round(w * s).
C6_Original ==
    (ScaleCalled /\ FixedScale(obj)) =>
        \A i \in 1..Len(results.img) :
            LET s == obj.scales[1]
            IN  Shape(results.img[i]) =
                    <<PyRound(Height(pre[i]) * s[1], s[2]),
                      PyRound(Width(pre[i]) * s[1], s[2])>>

\* C6 amended: with a fixed scale s every image of height h and width w is
\* resized to height int(h * s) and width int(w * s), the products
\* truncated (rounded down), not rounded to the nearest integer.
C6_Amended ==
    (ScaleCalled /\ FixedScale(obj)) =>
        /\ Len(results.img) = Len(pre)
        /\ \A i \in 1..Len(results.img) :
            LET s == obj.scales[1]
                y == Height(results.img[i])
                x == Width(results.img[i])
            IN  /\ y * s[2] <= Height(pre[i]) * s[1]
                /\ Height(pre[i]) * s[1] < (y + 1) * s[2]
                /\ x * s[2] <= Width(pre[i]) * s[1]
                /\ Width(pre[i]) * s[1] < (x + 1) * s[2]

C6_Witness ==
    /\ ScaleCalled /\ FixedScale(obj)
    /\ obj.scales[1] = <<3, 4>>
    /\ Shape(pre[1]) = <<2, 3>>
    /\ Shape(results.img[1]) = <<1, 2>>

-----------------------------------------------------------------------------
(* Claims about PhotoMetricDistortionMultiViewImage, checked under         *)
(* SpecPhoto and SpecHue                                                   *)

PhotoCalled ==
    last.op = "PhotoMetricDistortionMultiViewImage.__call__" /\ err = "none"

PhotoFailed ==
    last.op = "PhotoMetricDistortionMultiViewImage.__call__" /\ err = "AssertionError"

\* the steps the last call added to the first pixel of image i
NewSteps(i) ==
    SubSeq(results.img[i].pix[1][1],
           Len(pre[i].pix[1][1]) + 1, Len(results.img[i].pix[1][1]))

\* the place of the step called name among steps
Place(steps, name) == CHOOSE k \in 1..Len(steps) : steps[k][1] = name

\* C7: for each image the drawn mode decides the position of the contrast
\* step: when mode == 0 the random contrast step runs first (before the
\* BGR-to-HSV conversion), and when mode == 1 it runs last (after the
\* HSV-to-BGR conversion).
C7_ContrastPosition ==
    PhotoCalled =>
        \A i \in 1..Len(results.img) :
            ~IsNone(last.draws[i].contrast) =>
                LET steps == NewSteps(i)
                IN  /\ last.draws[i].mode = 0 =>
                          Place(steps, "mul") < Place(steps, "bgr2hsv")
                    /\ last.draws[i].mode = 1 =>
                          Place(steps, "mul") > Place(steps, "hsv2bgr")

\* C8: whenever the hue step is applied to hue values in [0, 360) with an
\* offset in [-hue_delta, hue_delta] (hue_delta <= 360), every resulting
\* hue value lies in the half-open interval [0, 360).
C8_HueInRange ==
    (~IsNone(hue.out) /\ obj.hue_delta <= 360) =>
        \A k \in 1..Len(hue.chan) :
            (0 <= hue.chan[k] /\ hue.chan[k] < 360) =>
                (0 <= Val(hue.out)[k] /\ Val(hue.out)[k] < 360)

\* C10 as stated: when some image is not float32 the call fails with the
\* dtype assertion and leaves the record as it was: results['img'] is the
\* same list and the pixel data of every image in it, including the images
\* that precede the offending one, is unchanged.
C10_Original == PhotoFailed => (results.img = pre)

StepNames(steps) == [k \in 1..Len(steps) |-> steps[k][1]]

\* C10 amended: when some image is not float32 the call fails with the
\* dtype assertion; results['img'] is still the same list of the same
\* arrays (same views, order, shapes and dtypes) and the offending image
\* and every image after it are unchanged, but an image that precedes the
\* offending one may have been changed in place by its brightness offset
\* and, when its mode is 1, its contrast factor (and by nothing else).
C10_Amended ==
    PhotoFailed =>
        LET k == Processed(pre) + 1
        IN  /\ k <= Len(pre)
            /\ pre[k].dtype # "float32"
            /\ Len(results.img) = Len(pre)
            /\ \A i \in 1..Len(pre) :
                  /\ results.img[i].id = pre[i].id
                  /\ results.img[i].dtype = pre[i].dtype
                  /\ Shape(results.img[i]) = Shape(pre[i])
                  /\ i >= k => results.img[i] = pre[i]
                  /\ i < k =>
                       /\ StepNames(NewSteps(i)) \in
                              { <<>>, <<"add">>, <<"mul">>, <<"add", "mul">> }
                       /\ IsNone(last.draws[i].brightness) /\ last.draws[i].mode = 0
                              => results.img[i] = pre[i]

C10_Witness ==
    /\ PhotoFailed
    /\ Len(pre) = 2
    /\ pre[1].dtype = "float32" /\ pre[2].dtype = "uint8"
    /\ StepNames(NewSteps(1)) = <<"add", "mul">>
    /\ results.img[2] = pre[2]

-----------------------------------------------------------------------------
(* Claims about the pipeline, checked under Spec *)

\* C9: after any sequence of successful calls of the five transforms on one
\* record, results['img'] holds the same number of views in the same order
\* as before the sequence: no transform adds, drops or reorders views, for
\* any random draws.
C9_ViewsKept == (err = "none") => (Ids(results.img) = Ids(loaded))

C9_Witness ==
    /\ err = "none"
    /\ ncalls = MaxCalls
    /\ last.op = "RandomFlip.__call__"
    /\ Val(results.flip) = TRUE
    /\ Len(loaded) = 2
    /\ Ids(results.img) = <<1, 2>>
    /\ \E k \in 1..Len(results.img[2].pix[1][1]) :
          results.img[2].pix[1][1][k][1] = "hsv2bgr"

=============================================================================
